---- MODULE Spec2Model ----
(***************************************************************************)
(* Model of lab2.cpp: the red-black tree (RedBlackTree) and the chained    *)
(* hash table (HashTable) that store DataObject records and answer         *)
(* multi-match searches by key.                                            *)
(*                                                                         *)
(* The tree is modelled as the code builds it: an arena of RBTNode         *)
(* records linked by parent / left / right pointers (nullptr is 0), with   *)
(* rotations and the insert fix-up translated assignment by assignment.    *)
(* The hash table is the vector of chains, table_size and collision_count. *)
(***************************************************************************)
EXTENDS Integers, Sequences, FiniteSets

(***************************************************************************)
(* Bounds of the model.                                                    *)
(***************************************************************************)
\* number of records a tree holds at most
MaxInserts == 8
\* length of the longest dataset handed to RedBlackTree::build
MaxBuild == 1
\* number of records a hash table holds at most
MaxHTInserts == 3
\* number of records a tree holds at most when insert runs step by step
MaxStepInserts == 8
\* number of records the unbalanced BST holds at most
MaxBSTInserts == 7
\* length of the longest dataset handed to HashTable::build
MaxHTBuild == 2
\* largest value std::hash returns for a key of the model: with 2 a hash can
\* exceed the smallest capacity, so the modulo of hashFunction matters
MaxHash == 2
\* the expected_elements handed to the HashTable constructor: the degenerate
\* size, the largest size of the special case of findNextPrime, and a large
\* one; build adds the sizes 0..MaxHTBuild
ExpectedSizes == {0, 2, 10}

(***************************************************************************)
(* DataObject (lab2.cpp 22-69).  A key is a std::string, modelled as the   *)
(* sequence of its character codes; operator< on keys is lexicographic.    *)
(***************************************************************************)
ca  == <<99, 97>>
cat == <<99, 97, 116>>
dog == <<100, 111, 103>>
Keys == {ca, cat, dog}

\* std::string operator< : lexicographic comparison of character codes
KeyLess(a, b) ==
    \E i \in 1..(Len(a) + 1) :
        /\ \A j \in 1..(i - 1) : j <= Len(b) /\ a[j] = b[j]
        /\ i <= Len(b)
        /\ (i = Len(a) + 1 \/ a[i] < b[i])

\* DataObject(k, v1, v2); the two value fields carry the record's serial
\* number, as in the dataset ("cat",1,1.0), ("dog",2,2.0), ("cat",3,3.0)
DataObject(k, v) == [key |-> k, value1 |-> v, value2 |-> v]

\* the datasets of length n over Keys: the i-th record carries serial i
Datasets(n) ==
    UNION { { [i \in 1..m |-> DataObject(ks[i], i)] : ks \in [1..m -> Keys] } : m \in 0..n }

nullptr == 0
RED == "RED"
BLACK == "BLACK"

VARIABLES
    root,             \* RedBlackTree::root: a node of the arena, or nullptr
    nodes,            \* the RBTNodes allocated by the tree, by address 1..Len(nodes)
    rbtData,          \* the records inserted into the tree since it was last emptied
    table,            \* HashTable::table: the chains, bucket i at position i + 1
    table_size,       \* HashTable::table_size
    collision_count,  \* HashTable::collision_count
    hashOf,           \* std::hash<std::string>: a fixed, implementation-defined function
    htData,           \* the records inserted into the table since it was last constructed
    expected,         \* the expected_elements the table was last constructed with
    op,               \* the last operation the caller ran, with its argument
    results,          \* the vector the last operation returned (empty for a void one)
    frame,            \* the locals of a RedBlackTree::insert that runs step by step
    bstRoot,          \* the BSTNode* root the caller holds
    bstNodes,         \* the BSTNodes allocated by insertBST, by address
    bstData           \* the records inserted into the BST

vars == <<root, nodes, rbtData, table, table_size, collision_count, hashOf,
          htData, expected, op, results, frame, bstRoot, bstNodes, bstData>>

rbtVars == <<root, nodes, rbtData>>
bstVars == <<bstRoot, bstNodes, bstData>>
htVars == <<table, table_size, collision_count, hashOf, htData, expected>>

(***************************************************************************)
(* RedBlackTree.  A tree value T is [nodes |-> arena, root |-> address].   *)
(***************************************************************************)

\* new RBTNode(obj): colour RED, no parent, no children
RBTNode(d) == [data |-> d, color |-> RED, parent |-> nullptr, left |-> nullptr, right |-> nullptr]

\* leftRotate with x->right = y->left left out for nullptr: the subtree
\* between x and y is dropped
leftRotate_dropsSubtree(T, x) ==
    LET y == T.nodes[x].right IN
    IF y = nullptr THEN T
    ELSE
        LET xp == T.nodes[x].parent
            n1 == [T.nodes EXCEPT ![x].right = nullptr]
            n3 == [n1 EXCEPT ![y].parent = xp]
            r4 == IF xp = nullptr THEN y ELSE T.root
            n4 == IF xp = nullptr THEN n3
                  ELSE IF x = n3[xp].left THEN [n3 EXCEPT ![xp].left = y]
                  ELSE [n3 EXCEPT ![xp].right = y]
            n5 == [n4 EXCEPT ![y].left = x]
            n6 == [n5 EXCEPT ![x].parent = y]
        IN [nodes |-> n6, root |-> r4]

\* RedBlackTree::leftRotate(x)
leftRotate(T, x) ==
    LET y == T.nodes[x].right IN
    IF y = nullptr THEN T
    ELSE
        LET yl == T.nodes[y].left
            xp == T.nodes[x].parent
            n1 == [T.nodes EXCEPT ![x].right = yl]
            n2 == IF yl # nullptr THEN [n1 EXCEPT ![yl].parent = x] ELSE n1
            n3 == [n2 EXCEPT ![y].parent = xp]
            r4 == IF xp = nullptr THEN y ELSE T.root
            n4 == IF xp = nullptr THEN n3
                  ELSE IF x = n3[xp].left THEN [n3 EXCEPT ![xp].left = y]
                  ELSE [n3 EXCEPT ![xp].right = y]
            n5 == [n4 EXCEPT ![y].left = x]
            n6 == [n5 EXCEPT ![x].parent = y]
        IN [nodes |-> n6, root |-> r4]

\* RedBlackTree::rightRotate(y)
rightRotate(T, y) ==
    LET x == T.nodes[y].left IN
    IF x = nullptr THEN T
    ELSE
        LET xr == T.nodes[x].right
            yp == T.nodes[y].parent
            n1 == [T.nodes EXCEPT ![y].left = xr]
            n2 == IF xr # nullptr THEN [n1 EXCEPT ![xr].parent = y] ELSE n1
            n3 == [n2 EXCEPT ![x].parent = yp]
            r4 == IF yp = nullptr THEN x ELSE T.root
            n4 == IF yp = nullptr THEN n3
                  ELSE IF y = n3[yp].left THEN [n3 EXCEPT ![yp].left = x]
                  ELSE [n3 EXCEPT ![yp].right = x]
            n5 == [n4 EXCEPT ![x].right = y]
            n6 == [n5 EXCEPT ![y].parent = x]
        IN [nodes |-> n6, root |-> r4]

\* parent->color = BLACK, guarded by if(parent)
blacken(T, p) ==
    IF p # nullptr THEN [T EXCEPT !.nodes[p].color = BLACK] ELSE T

\* the uncle-RED case with z = parent for z = grandparent
fixupUncleRed_zToParent(T, parent, uncle, grandparent) ==
    [tree |-> [T EXCEPT !.nodes[parent].color = BLACK,
                        !.nodes[uncle].color = BLACK,
                        !.nodes[grandparent].color = RED],
     z |-> parent]

\* the uncle-RED case with grandparent->color = RED left out
fixupUncleRed_grandparentKept(T, parent, uncle, grandparent) ==
    [tree |-> [T EXCEPT !.nodes[parent].color = BLACK,
                        !.nodes[uncle].color = BLACK],
     z |-> grandparent]

\* insertFixup, uncle RED (either side): recolour, z moves to the grandparent
fixupUncleRed(T, parent, uncle, grandparent) ==
    [tree |-> [T EXCEPT !.nodes[parent].color = BLACK,
                        !.nodes[uncle].color = BLACK,
                        !.nodes[grandparent].color = RED],
     z |-> grandparent]

\* insertFixup, parent is the left child of the grandparent, uncle BLACK or
\* absent: the triangle case rotates left about the parent first, then the
\* line case recolours and rotates right about the grandparent
fixupLeftBlack(T, z, parent, grandparent) ==
    LET tri == (z = T.nodes[parent].right)
        z1 == IF tri THEN parent ELSE z
        T1 == IF tri THEN leftRotate(T, z1) ELSE T
        p1 == IF tri THEN T1.nodes[z1].parent ELSE parent
        g1 == IF tri THEN (IF p1 # nullptr THEN T1.nodes[p1].parent ELSE nullptr)
              ELSE grandparent
        T2 == blacken(T1, p1)
        T3 == IF g1 # nullptr
              THEN rightRotate([T2 EXCEPT !.nodes[g1].color = RED], g1)
              ELSE T2
    IN [tree |-> T3, z |-> z1]

\* insertFixup, the mirrored case: parent is the right child of the grandparent
fixupRightBlack(T, z, parent, grandparent) ==
    LET tri == (z = T.nodes[parent].left)
        z1 == IF tri THEN parent ELSE z
        T1 == IF tri THEN rightRotate(T, z1) ELSE T
        p1 == IF tri THEN T1.nodes[z1].parent ELSE parent
        g1 == IF tri THEN (IF p1 # nullptr THEN T1.nodes[p1].parent ELSE nullptr)
              ELSE grandparent
        T2 == blacken(T1, p1)
        T3 == IF g1 # nullptr
              THEN leftRotate([T2 EXCEPT !.nodes[g1].color = RED], g1)
              ELSE T2
    IN [tree |-> T3, z |-> z1]

\* the triangle case without z = parent: the rotation is about the child
innerPivot_keepsZ(z, parent) == z

\* z = parent, the node the triangle case rotates about
innerPivot(z, parent) == parent

\* the child the descent loop of insert moves to from x
descendTo(ns, x, k) ==
    IF KeyLess(k, ns[x].data.key) THEN ns[x].left ELSE ns[x].right

\* one iteration of the while loop of insertFixup, entered with a RED parent
\* that has a parent of its own
fixupIteration(T, z) ==
    LET parent == T.nodes[z].parent
        grandparent == T.nodes[parent].parent
    IN IF parent = T.nodes[grandparent].left
       THEN LET uncle == T.nodes[grandparent].right IN
            IF uncle # nullptr /\ T.nodes[uncle].color = RED
            THEN fixupUncleRed(T, parent, uncle, grandparent)
            ELSE fixupLeftBlack(T, z, parent, grandparent)
       ELSE LET uncle == T.nodes[grandparent].left IN
            IF uncle # nullptr /\ T.nodes[uncle].color = RED
            THEN fixupUncleRed(T, parent, uncle, grandparent)
            ELSE fixupRightBlack(T, z, parent, grandparent)

\* insertFixup without its last statement
blackenRoot_left_out(T) == T

\* if(root) root->color = BLACK, the last statement of insertFixup
blackenRoot(T) == blacken(T, T.root)

\* RedBlackTree::insertFixup(z)
RECURSIVE insertFixup(_, _)
insertFixup(T, z) ==
    LET parent == T.nodes[z].parent IN
    IF parent = nullptr \/ T.nodes[parent].color # RED THEN blackenRoot(T)
    ELSE IF T.nodes[parent].parent = nullptr THEN blackenRoot(T)
    ELSE LET s == fixupIteration(T, z) IN insertFixup(s.tree, s.z)

\* the descent loop of RedBlackTree::insert: the node y under which the key
\* is attached, starting at x with y the node last visited
RECURSIVE descend(_, _, _, _)
descend(ns, x, y, k) ==
    IF x = nullptr THEN y
    ELSE IF KeyLess(k, ns[x].data.key) THEN descend(ns, ns[x].left, x, k)
    ELSE descend(ns, ns[x].right, x, k)

\* RedBlackTree::insert up to the call of insertFixup: allocate z, descend,
\* link z under y
attach(T, obj) ==
    LET z == Len(T.nodes) + 1
        y == descend(T.nodes, T.root, nullptr, obj.key)
        n1 == Append(T.nodes, [RBTNode(obj) EXCEPT !.parent = y])
    IN IF y = nullptr THEN [nodes |-> n1, root |-> z]
       ELSE IF KeyLess(obj.key, n1[y].data.key)
            THEN [nodes |-> [n1 EXCEPT ![y].left = z], root |-> T.root]
            ELSE [nodes |-> [n1 EXCEPT ![y].right = z], root |-> T.root]

\* RedBlackTree::insert(obj)
RedBlackTree_insert(T, obj) ==
    insertFixup(attach(T, obj), Len(T.nodes) + 1)

\* searchRecursive with the comparison of the second branch reversed: it
\* descends to the wrong side of a node with another key
RECURSIVE searchRecursive_reversed(_, _, _)
searchRecursive_reversed(ns, node, searchKey) ==
    IF node = nullptr THEN <<>>
    ELSE IF searchKey = ns[node].data.key
         THEN <<ns[node].data>> \o searchRecursive_reversed(ns, ns[node].right, searchKey)
    ELSE IF KeyLess(ns[node].data.key, searchKey)
         THEN searchRecursive_reversed(ns, ns[node].left, searchKey)
    ELSE searchRecursive_reversed(ns, ns[node].right, searchKey)

\* RedBlackTree::searchRecursive(node, searchKey, results): the records it
\* appends to results, in order
RECURSIVE searchRecursive(_, _, _)
searchRecursive(ns, node, searchKey) ==
    IF node = nullptr THEN <<>>
    ELSE IF searchKey = ns[node].data.key
         THEN <<ns[node].data>> \o searchRecursive(ns, ns[node].right, searchKey)
    ELSE IF KeyLess(searchKey, ns[node].data.key)
         THEN searchRecursive(ns, ns[node].left, searchKey)
    ELSE searchRecursive(ns, ns[node].right, searchKey)

\* RedBlackTree::search(searchKey)
RedBlackTree_search(T, searchKey) == searchRecursive(T.nodes, T.root, searchKey)

\* RedBlackTree::RedBlackTree(): the empty tree
EmptyTree == [nodes |-> <<>>, root |-> nullptr]

\* the for loop of RedBlackTree::build: insert data[i..] in order
RECURSIVE insertAll(_, _, _)
insertAll(T, data, i) ==
    IF i > Len(data) THEN T
    ELSE insertAll(RedBlackTree_insert(T, data[i]), data, i + 1)

\* destroyRecursive(root); root = nullptr: every node of the tree is deleted
destroyTree(T) == [nodes |-> <<>>, root |-> nullptr]

\* build without the two statements that clear the old tree
RedBlackTree_build_keepsOld(T, data) == insertAll(T, data, 1)

\* RedBlackTree::build(data): destroy the old tree, then insert every record
RedBlackTree_build(T, data) == insertAll(destroyTree(T), data, 1)

\* the tree held by the state
Tree == [nodes |-> nodes, root |-> root]


(***************************************************************************)
(* The unbalanced BST.  A value B is [nodes |-> arena, root |-> address].  *)
(***************************************************************************)

\* new BSTNode(obj)
BSTNode(d) == [data |-> d, left |-> nullptr, right |-> nullptr]

\* the test of insertBST with <= for <: an equal key goes left
goesLeft_onEqual(obj, d) == obj.key = d.key \/ KeyLess(obj.key, d.key)

\* the test of insertBST: obj.key < node->data.key
goesLeft(obj, d) == KeyLess(obj.key, d.key)

\* insertBST(node, obj) for a node that is not null: the arena after the
\* recursion has stored the new node in the first null link it reaches
RECURSIVE insertBSTBelow(_, _, _)
insertBSTBelow(ns, node, obj) ==
    LET new == Len(ns) + 1 IN
    IF goesLeft(obj, ns[node].data)
    THEN IF ns[node].left = nullptr
         THEN [Append(ns, BSTNode(obj)) EXCEPT ![node].left = new]
         ELSE insertBSTBelow(ns, ns[node].left, obj)
    ELSE IF ns[node].right = nullptr
         THEN [Append(ns, BSTNode(obj)) EXCEPT ![node].right = new]
         ELSE insertBSTBelow(ns, ns[node].right, obj)

\* insertBST(bstRoot, obj)
insertBST(B, obj) ==
    IF B.root = nullptr
    THEN [nodes |-> Append(B.nodes, BSTNode(obj)), root |-> Len(B.nodes) + 1]
    ELSE [nodes |-> insertBSTBelow(B.nodes, B.root, obj), root |-> B.root]

\* searchBSTRecursive(node, searchKey, results): the records it appends
RECURSIVE searchBSTRecursive(_, _, _)
searchBSTRecursive(ns, node, searchKey) ==
    IF node = nullptr THEN <<>>
    ELSE IF searchKey = ns[node].data.key
         THEN <<ns[node].data>> \o searchBSTRecursive(ns, ns[node].right, searchKey)
    ELSE IF KeyLess(searchKey, ns[node].data.key)
         THEN searchBSTRecursive(ns, ns[node].left, searchKey)
    ELSE searchBSTRecursive(ns, ns[node].right, searchKey)

\* searchBST(root, searchKey)
searchBST(B, searchKey) == searchBSTRecursive(B.nodes, B.root, searchKey)

\* the BST held by the state
BST == [nodes |-> bstNodes, root |-> bstRoot]

(***************************************************************************)
(* HashTable.  A table value H is [table, table_size, collision_count].    *)
(* size_t arithmetic is far from wrapping for the sizes of the model.      *)
(***************************************************************************)

\* the for loop of HashTable::isPrime, from trial divisor i
RECURSIVE isPrimeLoop(_, _)
isPrimeLoop(n, i) ==
    IF i * i > n THEN TRUE
    ELSE IF n % i = 0 \/ n % (i + 2) = 0 THEN FALSE
    ELSE isPrimeLoop(n, i + 6)

\* HashTable::isPrime(n)
isPrime(n) ==
    IF n <= 1 THEN FALSE
    ELSE IF n <= 3 THEN TRUE
    ELSE IF n % 2 = 0 \/ n % 3 = 0 THEN FALSE
    ELSE isPrimeLoop(n, 5)

\* the while loop of HashTable::findNextPrime: n += 2 until isPrime(n)
RECURSIVE nextPrimeLoop(_)
nextPrimeLoop(n) == IF isPrime(n) THEN n ELSE nextPrimeLoop(n + 2)

\* static_cast<size_t>(static_cast<double>(n) * 1.5): exact for these n
scale(n) == (3 * n) \div 2

\* findNextPrime without the special case n <= 2
findNextPrime_noSmallCase(n) ==
    LET m == scale(n)
        odd == IF m % 2 = 0 THEN m + 1 ELSE m
    IN nextPrimeLoop(odd)

\* HashTable::findNextPrime(n)
findNextPrime(n) ==
    IF n <= 2 THEN 2
    ELSE LET m == scale(n)
             odd == IF m % 2 = 0 THEN m + 1 ELSE m
         IN nextPrimeLoop(odd)

\* std::max(static_cast<size_t>(1), expected_elements)
max1(n) == IF n < 1 THEN 1 ELSE n

\* HashTable::HashTable(expected_elements)
HashTable(expected_elements) ==
    LET size == findNextPrime(max1(expected_elements)) IN
    [table |-> [i \in 1..size |-> <<>>], table_size |-> size, collision_count |-> 0]

\* an assignment that leaves collision_count as it was
assign_keepsCount(H, fresh) ==
    [table |-> fresh.table, table_size |-> fresh.table_size,
     collision_count |-> H.collision_count]

\* *this = HashTable(n): the implicit assignment copies every member
assign(H, fresh) ==
    [table |-> fresh.table, table_size |-> fresh.table_size,
     collision_count |-> fresh.collision_count]

\* hashFunction without the modulo by table_size
hashFunction_noModulo(H, key) == hashOf[key]

\* HashTable::hashFunction(key)
hashFunction(H, key) ==
    IF H.table_size > 0 THEN hashOf[key] % H.table_size ELSE 0

\* the collision test without the scan for the key: any occupied bucket counts
isNewCollision_anyOccupied(chain, key) == chain # <<>>

\* the collision test without if (!table[index].empty()): a key new to the
\* bucket counts even when the bucket is empty
isNewCollision_ignoresEmpty(chain, key) ==
    ~ \E i \in 1..Len(chain) : chain[i].key = key

\* the collision test of HashTable::insert: the chain is not empty and no
\* record of it has the key being inserted
isNewCollision(chain, key) ==
    /\ chain # <<>>
    /\ ~ \E i \in 1..Len(chain) : chain[i].key = key

\* table[index].push_back(obj)
pushBack(chain, obj) == Append(chain, obj)

\* HashTable::insert(obj)
HashTable_insert(H, obj) ==
    LET H1 == IF H.table_size = 0 THEN assign(H, HashTable(1)) ELSE H
        index == hashFunction(H1, obj.key)
    IN IF index >= H1.table_size THEN H1
       ELSE [H1 EXCEPT
               !.collision_count =
                   IF isNewCollision(H1.table[index + 1], obj.key) THEN @ + 1 ELSE @,
               !.table[index + 1] = pushBack(@, obj)]

\* the scan of HashTable::search: the records of the bucket with the key
RECURSIVE scanBucket(_, _)
scanBucket(bucket, searchKey) ==
    IF bucket = <<>> THEN <<>>
    ELSE (IF Head(bucket).key = searchKey THEN <<Head(bucket)>> ELSE <<>>)
         \o scanBucket(Tail(bucket), searchKey)

\* search without the key comparison of the scan: the whole chain is returned
HashTable_search_unfiltered(H, searchKey) ==
    IF H.table_size = 0 THEN <<>>
    ELSE LET index == hashFunction(H, searchKey) IN
         IF index >= H.table_size THEN <<>>
         ELSE H.table[index + 1]

\* HashTable::search(searchKey)
HashTable_search(H, searchKey) ==
    IF H.table_size = 0 THEN <<>>
    ELSE LET index == hashFunction(H, searchKey) IN
         IF index >= H.table_size THEN <<>>
         ELSE scanBucket(H.table[index + 1], searchKey)

\* the for loop of HashTable::build: insert data[i..] in order
RECURSIVE htInsertAll(_, _, _)
htInsertAll(H, data, i) ==
    IF i > Len(data) THEN H
    ELSE htInsertAll(HashTable_insert(H, data[i]), data, i + 1)

\* HashTable::build(data): *this = HashTable(data.size()), then insert all
HashTable_build(H, data) == htInsertAll(assign(H, HashTable(Len(data))), data, 1)

\* the table held by the state
Table == [table |-> table, table_size |-> table_size, collision_count |-> collision_count]

(***************************************************************************)
(* The operations of the caller.                                           *)
(***************************************************************************)

\* rbt.insert(obj)
RBTInsert ==
    /\ Len(rbtData) < MaxInserts
    /\ \E k \in Keys :
        LET obj == DataObject(k, Len(rbtData) + 1)
            T == RedBlackTree_insert(Tree, obj)
        IN /\ nodes' = T.nodes
           /\ root' = T.root
           /\ rbtData' = Append(rbtData, obj)
           /\ op' = [name |-> "rbt_insert", arg |-> obj]
    /\ results' = <<>>
    /\ UNCHANGED <<htVars, frame, bstVars>>

\* rbt.search(key)
RBTSearch ==
    /\ \E k \in Keys :
        /\ results' = RedBlackTree_search(Tree, k)
        /\ op' = [name |-> "rbt_search", arg |-> k]
    /\ UNCHANGED <<rbtVars, htVars, frame, bstVars>>

\* rbt.build(data)
RBTBuild ==
    /\ \E data \in Datasets(MaxBuild) :
        LET T == RedBlackTree_build(Tree, data)
        IN /\ nodes' = T.nodes
           /\ root' = T.root
           /\ rbtData' = data
           /\ op' = [name |-> "rbt_build", arg |-> data]
    /\ results' = <<>>
    /\ UNCHANGED <<htVars, frame, bstVars>>

\* ht.insert(obj)
HTInsert ==
    /\ Len(htData) < MaxHTInserts
    /\ \E k \in Keys :
        LET obj == DataObject(k, Len(htData) + 1)
            H == HashTable_insert(Table, obj)
        IN /\ table' = H.table
           /\ table_size' = H.table_size
           /\ collision_count' = H.collision_count
           /\ htData' = Append(htData, obj)
           /\ op' = [name |-> "ht_insert", arg |-> obj]
    /\ results' = <<>>
    /\ UNCHANGED <<rbtVars, hashOf, expected, frame, bstVars>>

\* ht.search(key)
HTSearch ==
    /\ \E k \in Keys :
        /\ results' = HashTable_search(Table, k)
        /\ op' = [name |-> "ht_search", arg |-> k]
    /\ UNCHANGED <<rbtVars, htVars, frame, bstVars>>

\* ht.build(data)
HTBuild ==
    /\ \E data \in Datasets(MaxHTBuild) :
        LET H == HashTable_build(Table, data)
        IN /\ table' = H.table
           /\ table_size' = H.table_size
           /\ collision_count' = H.collision_count
           /\ htData' = data
           /\ expected' = Len(data)
           /\ op' = [name |-> "ht_build", arg |-> data]
    /\ results' = <<>>
    /\ UNCHANGED <<rbtVars, hashOf, frame, bstVars>>

\* the state after HashTable ht(n) on a platform whose std::hash is h
Constructed(n, h) ==
    LET H == HashTable(n) IN
    /\ table = H.table
    /\ table_size = H.table_size
    /\ collision_count = H.collision_count
    /\ hashOf = h
    /\ htData = <<>>
    /\ expected = n

\* the state after RedBlackTree rbt
EmptyRBT ==
    /\ root = nullptr
    /\ nodes = <<>>
    /\ rbtData = <<>>

\* no insert is running: the frame holds no locals
NoFrame == [pc |-> "idle", z |-> nullptr, x |-> nullptr, y |-> nullptr,
            parent |-> nullptr, grandparent |-> nullptr, side |-> "none"]

\* BSTNode* bstRoot = nullptr
EmptyBST ==
    /\ bstRoot = nullptr
    /\ bstNodes = <<>>
    /\ bstData = <<>>

NoOp ==
    /\ op = [name |-> "init", arg |-> <<>>]
    /\ results = <<>>
    /\ frame = NoFrame

\* the red-black tree on its own
InitRBT ==
    /\ EmptyRBT
    /\ EmptyBST
    /\ Constructed(0, [k \in Keys |-> 0])
    /\ NoOp

NextRBT == RBTInsert \/ RBTSearch \/ RBTBuild

SpecRBT == InitRBT /\ [][NextRBT]_vars

\* the hash table on its own, for every std::hash and every expected size
InitHT ==
    /\ EmptyRBT
    /\ EmptyBST
    /\ \E n \in ExpectedSizes, h \in [Keys -> 0..MaxHash] : Constructed(n, h)
    /\ NoOp

NextHT == HTInsert \/ HTSearch \/ HTBuild

SpecHT == InitHT /\ [][NextHT]_vars

\* rbt.insert(obj); hashTable.insert(obj): both structures fed the same record
InsertBoth ==
    /\ Len(rbtData) < MaxHTInserts
    /\ \E k \in Keys :
        LET obj == DataObject(k, Len(rbtData) + 1)
            T == RedBlackTree_insert(Tree, obj)
            H == HashTable_insert(Table, obj)
        IN /\ nodes' = T.nodes
           /\ root' = T.root
           /\ rbtData' = Append(rbtData, obj)
           /\ table' = H.table
           /\ table_size' = H.table_size
           /\ collision_count' = H.collision_count
           /\ htData' = Append(htData, obj)
           /\ op' = [name |-> "insert", arg |-> obj]
    /\ results' = <<>>
    /\ UNCHANGED <<hashOf, expected, frame, bstVars>>

\* rbt.build(data); hashTable.build(data): both structures built from the
\* same dataset, as the benchmark does (lab2.cpp 731, 749)
BuildBoth ==
    /\ \E data \in Datasets(MaxHTBuild) :
        LET T == RedBlackTree_build(Tree, data)
            H == HashTable_build(Table, data)
        IN /\ nodes' = T.nodes
           /\ root' = T.root
           /\ rbtData' = data
           /\ table' = H.table
           /\ table_size' = H.table_size
           /\ collision_count' = H.collision_count
           /\ htData' = data
           /\ expected' = Len(data)
           /\ op' = [name |-> "build", arg |-> data]
    /\ results' = <<>>
    /\ UNCHANGED <<hashOf, frame, bstVars>>

\* insertBST(bstRoot, obj)
BSTInsert ==
    /\ Len(bstData) < MaxBSTInserts
    /\ \E k \in Keys :
        LET obj == DataObject(k, Len(bstData) + 1)
            B == insertBST(BST, obj)
        IN /\ bstNodes' = B.nodes
           /\ bstRoot' = B.root
           /\ bstData' = Append(bstData, obj)
           /\ op' = [name |-> "bst_insert", arg |-> obj]
    /\ results' = <<>>
    /\ UNCHANGED <<rbtVars, htVars, frame>>

\* searchBST(bstRoot, searchKey)
BSTSearch ==
    /\ \E k \in Keys :
        /\ results' = searchBST(BST, k)
        /\ op' = [name |-> "bst_search", arg |-> k]
    /\ UNCHANGED <<rbtVars, htVars, frame, bstVars>>

\* the unbalanced BST on its own
InitBST == InitRBT

NextBST == BSTInsert \/ BSTSearch

SpecBST == InitBST /\ [][NextBST]_vars

(***************************************************************************)
(* RedBlackTree::insert run statement by statement: the descent loop, the  *)
(* linking, and the loop of insertFixup with each rotation call a step of  *)
(* its own.  frame holds the locals x, y, z, parent, grandparent and side  *)
(* ("L" when parent == grandparent->left, "R" otherwise).                  *)
(***************************************************************************)

\* insert, lines 421-423: allocate z, y = nullptr, x = root
StepStart ==
    /\ frame.pc = "idle"
    /\ Len(rbtData) < MaxStepInserts
    /\ \E k \in Keys :
        LET obj == DataObject(k, Len(rbtData) + 1) IN
        /\ nodes' = Append(nodes, RBTNode(obj))
        /\ frame' = [NoFrame EXCEPT !.pc = "descend", !.z = Len(nodes) + 1, !.x = root]
        /\ op' = [name |-> "rbt_insert_call", arg |-> obj]
    /\ results' = <<>>
    /\ UNCHANGED <<root, rbtData, htVars, bstVars>>

\* insert, lines 426-433: one iteration of while (x)
StepDescend ==
    /\ frame.pc = "descend"
    /\ frame.x # nullptr
    /\ frame' = [frame EXCEPT !.y = frame.x,
                              !.x = descendTo(nodes, frame.x, nodes[frame.z].data.key)]
    /\ UNCHANGED <<rbtVars, htVars, bstVars, op, results>>

\* insert, lines 435-448: link z under y and call insertFixup(z)
StepLink ==
    /\ frame.pc = "descend"
    /\ frame.x = nullptr
    /\ LET z == frame.z
           y == frame.y
           n1 == [nodes EXCEPT ![z].parent = y]
       IN /\ nodes' = IF y = nullptr THEN n1
                      ELSE IF KeyLess(n1[z].data.key, n1[y].data.key)
                           THEN [n1 EXCEPT ![y].left = z]
                           ELSE [n1 EXCEPT ![y].right = z]
          /\ root' = IF y = nullptr THEN z ELSE root
          /\ rbtData' = Append(rbtData, nodes[z].data)
    /\ frame' = [frame EXCEPT !.pc = "fixup"]
    /\ UNCHANGED <<htVars, bstVars, op, results>>

\* the test of the while loop of insertFixup, with the break of line 317
LoopGoesOn ==
    LET parent == nodes[frame.z].parent IN
    /\ parent # nullptr
    /\ nodes[parent].color = RED
    /\ nodes[parent].parent # nullptr

\* the uncle of z, and the side of its parent
SideOfParent ==
    LET parent == nodes[frame.z].parent IN
    IF parent = nodes[nodes[parent].parent].left THEN "L" ELSE "R"

UncleOfZ ==
    LET grandparent == nodes[nodes[frame.z].parent].parent IN
    IF SideOfParent = "L" THEN nodes[grandparent].right ELSE nodes[grandparent].left

UncleIsRed == UncleOfZ # nullptr /\ nodes[UncleOfZ].color = RED

\* z is the inner child: parent->right on side L, parent->left on side R
ZIsInner ==
    LET parent == nodes[frame.z].parent IN
    IF SideOfParent = "L" THEN frame.z = nodes[parent].right
    ELSE frame.z = nodes[parent].left

\* insertFixup, lines 313, 317, 368: the loop ends, the root is made BLACK
StepFixupExit ==
    /\ frame.pc = "fixup"
    /\ ~ LoopGoesOn
    /\ LET T == blackenRoot(Tree) IN nodes' = T.nodes /\ root' = T.root
    /\ frame' = NoFrame
    /\ op' = [name |-> "rbt_insert", arg |-> nodes[frame.z].data]
    /\ UNCHANGED <<rbtData, htVars, bstVars, results>>

\* insertFixup, lines 321-326 and 345-350: the uncle is RED
StepUncleRed ==
    /\ frame.pc = "fixup"
    /\ LoopGoesOn
    /\ UncleIsRed
    /\ LET parent == nodes[frame.z].parent
           s == fixupUncleRed(Tree, parent, UncleOfZ, nodes[parent].parent)
       IN /\ nodes' = s.tree.nodes
          /\ root' = s.tree.root
          /\ frame' = [frame EXCEPT !.z = s.z]
    /\ UNCHANGED <<rbtData, htVars, bstVars, op, results>>

\* insertFixup, lines 328-330 and 352-354: the triangle case, z = parent
StepTriangle ==
    /\ frame.pc = "fixup"
    /\ LoopGoesOn
    /\ ~ UncleIsRed
    /\ ZIsInner
    /\ LET parent == nodes[frame.z].parent IN
       frame' = [frame EXCEPT !.pc = "rotateInner",
                              !.z = innerPivot(frame.z, parent),
                              !.parent = parent,
                              !.grandparent = nodes[parent].parent,
                              !.side = SideOfParent]
    /\ UNCHANGED <<rbtVars, htVars, bstVars, op, results>>

\* insertFixup, lines 331-333 and 355-357: the rotation about z, then parent
\* and grandparent are read again
StepRotateInner ==
    /\ frame.pc = "rotateInner"
    /\ LET T == IF frame.side = "L" THEN leftRotate(Tree, frame.z)
                ELSE rightRotate(Tree, frame.z)
           parent == T.nodes[frame.z].parent
       IN /\ nodes' = T.nodes
          /\ root' = T.root
          /\ frame' = [frame EXCEPT
                         !.pc = "recolourLine",
                         !.parent = parent,
                         !.grandparent = IF parent # nullptr THEN T.nodes[parent].parent
                                         ELSE nullptr]
    /\ UNCHANGED <<rbtData, htVars, bstVars, op, results>>

\* insertFixup: the line case is entered without a rotation about z
StepLine ==
    /\ frame.pc = "fixup"
    /\ LoopGoesOn
    /\ ~ UncleIsRed
    /\ ~ ZIsInner
    /\ LET parent == nodes[frame.z].parent IN
       frame' = [frame EXCEPT !.pc = "recolourLine",
                              !.parent = parent,
                              !.grandparent = nodes[parent].parent,
                              !.side = SideOfParent]
    /\ UNCHANGED <<rbtVars, htVars, bstVars, op, results>>

\* insertFixup, lines 337-339 and 360-362: parent BLACK, grandparent RED
StepRecolourLine ==
    /\ frame.pc = "recolourLine"
    /\ LET T == blacken(Tree, frame.parent) IN
       nodes' = IF frame.grandparent # nullptr
                THEN [T.nodes EXCEPT ![frame.grandparent].color = RED]
                ELSE T.nodes
    /\ frame' = [frame EXCEPT !.pc = IF frame.grandparent # nullptr THEN "rotateOuter"
                                     ELSE "fixup"]
    /\ UNCHANGED <<root, rbtData, htVars, bstVars, op, results>>

\* insertFixup, lines 340 and 363: the rotation about the grandparent
StepRotateOuter ==
    /\ frame.pc = "rotateOuter"
    /\ LET T == IF frame.side = "L" THEN rightRotate(Tree, frame.grandparent)
                ELSE leftRotate(Tree, frame.grandparent)
       IN nodes' = T.nodes /\ root' = T.root
    /\ frame' = [frame EXCEPT !.pc = "fixup"]
    /\ UNCHANGED <<rbtData, htVars, bstVars, op, results>>

\* the statements of a running insert
StepRun ==
    \/ StepDescend
    \/ StepLink
    \/ StepFixupExit
    \/ StepUncleRed
    \/ StepTriangle
    \/ StepRotateInner
    \/ StepLine
    \/ StepRecolourLine
    \/ StepRotateOuter

InitSteps == InitRBT

NextSteps == StepStart \/ StepRun

\* a call of insert runs to completion: nothing else is scheduled
SpecSteps == InitSteps /\ [][NextSteps]_vars /\ WF_vars(StepRun)

\* the tree and the table side by side, fed the same records; a search
\* changes neither, so the claims about them read the state with
\* RedBlackTree_search and HashTable_search
InitBoth == InitHT

NextBoth == InsertBoth \/ BuildBoth

SpecBoth == InitBoth /\ [][NextBoth]_vars


(***************************************************************************)
(* Reading a tree and a dataset.                                           *)
(***************************************************************************)

\* linearSearch(data, searchKey): the records with the key, in dataset order
linearSearch(data, searchKey) == SelectSeq(data, LAMBDA obj : obj.key = searchKey)

\* the nodes of the subtree rooted at n
RECURSIVE SubtreeNodes(_, _)
SubtreeNodes(ns, n) ==
    IF n = nullptr THEN {}
    ELSE {n} \cup SubtreeNodes(ns, ns[n].left) \cup SubtreeNodes(ns, ns[n].right)

\* the records of the subtree rooted at n, left subtree first
RECURSIVE Inorder(_, _)
Inorder(ns, n) ==
    IF n = nullptr THEN <<>>
    ELSE Inorder(ns, ns[n].left) \o <<ns[n].data>> \o Inorder(ns, ns[n].right)

\* the numbers of BLACK nodes on the paths from n down to an empty position
RECURSIVE BlackHeights(_, _)
BlackHeights(ns, n) ==
    IF n = nullptr THEN {0}
    ELSE { h + (IF ns[n].color = BLACK THEN 1 ELSE 0) :
             h \in BlackHeights(ns, ns[n].left) \cup BlackHeights(ns, ns[n].right) }

Range(s) == { s[i] : i \in 1..Len(s) }
Count(r, s) == Cardinality({ i \in 1..Len(s) : s[i] = r })

\* s and t hold the same records the same number of times
SameMultiset(s, t) ==
    /\ Len(s) = Len(t)
    /\ \A r \in Range(s) \cup Range(t) : Count(r, s) = Count(r, t)

KeyLeq(a, b) == a = b \/ KeyLess(a, b)

TreeNodes == SubtreeNodes(nodes, root)

(***************************************************************************)
(* The claims.                                                             *)
(***************************************************************************)

\* C1: RedBlackTree.search(k) returns exactly the multiset of the records
\* inserted so far whose key equals k (n records sharing one key give n
\* results).
C1_RBTSearchComplete ==
    op.name = "rbt_search" => SameMultiset(results, linearSearch(rbtData, op.arg))

\* C3: after every insert the root is BLACK when the tree is not empty, and no
\* RED node has a RED child.
C3_RootBlackNoRedRed ==
    /\ root # nullptr => nodes[root].color = BLACK
    /\ \A n \in TreeNodes :
          nodes[n].color = RED =>
              /\ nodes[n].left # nullptr => nodes[nodes[n].left].color = BLACK
              /\ nodes[n].right # nullptr => nodes[nodes[n].right].color = BLACK

\* C3 witness: an insert has rotated the tree (the root is no longer the first
\* node) and left a RED node under a BLACK parent that has two children.
C3_Witness ==
    /\ op.name = "rbt_insert"
    /\ root # nullptr /\ root # 1
    /\ \E n \in TreeNodes :
          /\ nodes[n].color = RED
          /\ nodes[n].left # nullptr /\ nodes[n].right # nullptr

\* C4: after every insert, from every node all paths down to an empty position
\* hold the same number of BLACK nodes.
C4_UniformBlackHeight ==
    \A n \in TreeNodes : Cardinality(BlackHeights(nodes, n)) = 1

\* C4 witness: an insert has left a tree of black-height 2 that holds a RED
\* node with two BLACK children, so recolouring has acted below the root.
C4_Witness ==
    /\ op.name = "rbt_insert"
    /\ BlackHeights(nodes, root) = {2}
    /\ \E n \in TreeNodes :
          /\ nodes[n].color = RED
          /\ nodes[n].left # nullptr /\ nodes[nodes[n].left].color = BLACK
          /\ nodes[n].right # nullptr /\ nodes[nodes[n].right].color = BLACK

\* C5: after every insert the in-order traversal visits exactly the records
\* inserted so far, each once, in non-decreasing key order.
C5_InorderSortedPermutation ==
    LET t == Inorder(nodes, root) IN
    /\ SameMultiset(t, rbtData)
    /\ \A i \in 1..(Len(t) - 1) : KeyLeq(t[i].key, t[i + 1].key)

\* C5 witness: an insert into a tree that has been rotated, holding duplicate
\* keys and at least two distinct keys.
C5_Witness ==
    /\ op.name = "rbt_insert"
    /\ root # nullptr /\ root # 1
    /\ Len(rbtData) >= 5
    /\ \E i, j \in 1..Len(rbtData) : i # j /\ rbtData[i].key = rbtData[j].key
    /\ \E i, j \in 1..Len(rbtData) : rbtData[i].key # rbtData[j].key

\* C6: after every insert, for every node all keys of its left subtree are
\* strictly less than its key and all keys of its right subtree are greater
\* than or equal to it.
C6_StrictLeftOrdering ==
    \A n \in TreeNodes :
        /\ \A m \in SubtreeNodes(nodes, nodes[n].left) :
              KeyLess(nodes[m].data.key, nodes[n].data.key)
        /\ \A m \in SubtreeNodes(nodes, nodes[n].right) :
              KeyLeq(nodes[n].data.key, nodes[m].data.key)

\* C7: RedBlackTree.search(k) lists the matching records in insertion order;
\* for ("cat",1,1.0), ("dog",2,2.0), ("cat",3,3.0) search("cat") returns
\* ("cat",1,1.0) then ("cat",3,3.0).
C7_RBTSearchInsertionOrder ==
    /\ op.name = "rbt_search" => results = linearSearch(rbtData, op.arg)
    /\ ( /\ op.name = "rbt_search" /\ op.arg = cat
         /\ rbtData = <<DataObject(cat, 1), DataObject(dog, 2), DataObject(cat, 3)>> )
       => results = <<DataObject(cat, 1), DataObject(cat, 3)>>


(***************************************************************************)
(* Reading a hash table and the records inserted into it.                  *)
(***************************************************************************)

\* n is a prime number
IsPrimeNumber(n) == n >= 2 /\ \A d \in 2..(n - 1) : n % d # 0

\* the bucket of a key in the table of the state
BucketOf(k) == hashOf[k] % table_size

\* the positions of htData inserted before position i into the same bucket
EarlierInBucket(i) ==
    { j \in 1..(i - 1) : BucketOf(htData[j].key) = BucketOf(htData[i].key) }

\* C2: HashTable.search(k) returns exactly the records inserted since the
\* table was built whose key equals k, each once, in insertion order, and the
\* empty sequence when there is none; duplicates are kept.
C2_HTSearchExact ==
    op.name = "ht_search" => results = linearSearch(htData, op.arg)

\* C2 witness: a search has returned two records of one key out of a chain
\* that also holds a record of another key.
C2_Witness ==
    /\ op.name = "ht_search"
    /\ Len(results) = 2
    /\ Len(table[BucketOf(op.arg) + 1]) = 3

\* C8: HashTable.insert(r) adds 1 to collisionCount exactly when the target
\* bucket is not empty and holds no record with r's key, leaves it unchanged
\* otherwise, and in both cases appends r to the end of the target chain.
C8_InsertCollisionStep ==
    [][ op'.name = "ht_insert" =>
          LET r == op'.arg
              b == BucketOf(r.key) + 1
              fresh == /\ Len(table[b]) > 0
                       /\ \A i \in 1..Len(table[b]) : table[b][i].key # r.key
          IN /\ collision_count' = collision_count + (IF fresh THEN 1 ELSE 0)
             /\ table' = [table EXCEPT ![b] = Append(table[b], r)]
      ]_vars

\* C8 witness: the last insert put a record behind a record of another key,
\* and the count stands at 1 although the chain holds three records.
C8_Witness ==
    /\ op.name = "ht_insert"
    /\ collision_count = 1
    /\ LET chain == table[BucketOf(op.arg.key) + 1] IN
          /\ Len(chain) = 3
          /\ chain[3] = op.arg
          /\ \E i \in 1..2 : chain[i].key # op.arg.key

\* C9: collisionCount increments exactly once for each inserted record whose
\* target bucket already held at least one record with a different key when
\* it was inserted, and for no other record.
C9_CountsDifferentKeyInBucket ==
    collision_count =
        Cardinality({ i \in 1..Len(htData) :
            \E j \in EarlierInBucket(i) : htData[j].key # htData[i].key })

\* C9 as amended: collisionCount increments exactly once for each inserted
\* record whose target bucket was not empty and held no record with the same
\* key when it was inserted, and for no other record.
C9_CountsNewKeyInOccupiedBucket ==
    collision_count =
        Cardinality({ i \in 1..Len(htData) :
            /\ EarlierInBucket(i) # {}
            /\ \A j \in EarlierInBucket(i) : htData[j].key # htData[i].key })

\* C9 witness: three records in one bucket, the third with the key of the
\* first and the second with another key: one collision, not two.
C9_Witness ==
    /\ Len(htData) = 3
    /\ EarlierInBucket(3) = {1, 2}
    /\ htData[1].key = htData[3].key
    /\ htData[2].key # htData[3].key
    /\ collision_count = 1

\* C10: for every expected element count n the capacity chosen by the
\* constructor or by build is a prime number that is at least
\* floor(1.5 * max(1, n)); 0 and 1 give 2, and 10 gives the next prime >= 15.
C10_CapacityPrimeAtLeastScaled ==
    /\ IsPrimeNumber(table_size)
    /\ table_size >= (3 * (IF expected < 1 THEN 1 ELSE expected)) \div 2
    /\ expected \in {0, 1} => table_size = 2
    /\ expected = 10 => table_size = 17


(***************************************************************************)
(* Rebuilding and degenerate sizes.                                        *)
(***************************************************************************)

\* a tree and a table freshly constructed and then filled by one insert per
\* record of the dataset
FreshTree(data) == insertAll(EmptyTree, data, 1)
FreshTable(data) == htInsertAll(HashTable(Len(data)), data, 1)

\* C11: from any state, build(D) leaves the tree and the table with the same
\* search result for every key, and the table with the same capacity and
\* collisionCount, as build(D) on a fresh instance; no record of an earlier
\* dataset remains retrievable.
C11_BuildIsFullReconstruction ==
    op.name = "build" =>
        /\ \A k \in Keys :
              /\ RedBlackTree_search(Tree, k) = RedBlackTree_search(FreshTree(op.arg), k)
              /\ HashTable_search(Table, k) = HashTable_search(FreshTable(op.arg), k)
              /\ Range(RedBlackTree_search(Tree, k)) \subseteq Range(op.arg)
              /\ Range(HashTable_search(Table, k)) \subseteq Range(op.arg)
        /\ table_size = FreshTable(op.arg).table_size
        /\ Len(table) = table_size
        /\ collision_count = FreshTable(op.arg).collision_count

\* C11 witness: a build of two records of different keys that collide in the
\* table.
C11_Witness ==
    /\ op.name = "build"
    /\ Len(op.arg) = 2
    /\ collision_count = 1
    /\ Len(nodes) = 2

\* C12: a table constructed for 0 elements or built from the empty dataset has
\* capacity 2, collisionCount 0 and an empty result for every key, and a
\* record then inserted is retrievable; a tree built from the empty dataset is
\* empty and its search returns nothing.
C12_DegenerateSizes ==
    /\ (expected = 0 /\ htData = <<>>) =>
          /\ table_size = 2 /\ Len(table) = 2
          /\ collision_count = 0
          /\ \A k \in Keys : HashTable_search(Table, k) = <<>>
    /\ (expected = 0 /\ Len(htData) = 1) =>
          /\ HashTable_search(Table, htData[1].key) = htData
          /\ collision_count = 0
    /\ (op.name = "build" /\ op.arg = <<>>) =>
          /\ root = nullptr
          /\ \A k \in Keys : RedBlackTree_search(Tree, k) = <<>>

\* C12 witness: a record inserted into a table of the degenerate size, with a
\* hash that exceeds the capacity and wraps to bucket 0.
C12_Witness ==
    /\ op.name = "insert"
    /\ expected = 0
    /\ Len(htData) = 1
    /\ hashOf[htData[1].key] = 2
    /\ table[1] = htData


(***************************************************************************)
(* The unbalanced BST against the linear scan.                             *)
(***************************************************************************)

\* C14: searchBST(root, k) returns the same sequence as linearSearch(D, k) for
\* the dataset D inserted in order with insertBST: every record with key k, in
\* insertion order; no record with a key equal to a node's key lies in that
\* node's left subtree.
C14_BSTSearchIsLinearSearch ==
    /\ op.name = "bst_search" => results = linearSearch(bstData, op.arg)
    /\ \A n \in SubtreeNodes(bstNodes, bstRoot) :
          \A m \in SubtreeNodes(bstNodes, bstNodes[n].left) :
              bstNodes[m].data.key # bstNodes[n].data.key

\* C14 witness: a search has returned three records of one key from a BST
\* whose root has another key and a left subtree.
C14_Witness ==
    /\ op.name = "bst_search"
    /\ Len(results) = 3
    /\ bstNodes[bstRoot].data.key # op.arg
    /\ bstNodes[bstRoot].left # nullptr
    /\ bstNodes[bstRoot].right # nullptr


(***************************************************************************)
(* The collision count as a function of the stored keys; what a tree       *)
(* search is guaranteed to return; the capacity.                           *)
(***************************************************************************)

\* the orderings of the records of a dataset
Permutations(data) ==
    { [i \in 1..Len(data) |-> data[p[i]]] :
        p \in { q \in [1..Len(data) -> 1..Len(data)] :
                  \A i, j \in 1..Len(data) : i # j => q[i] # q[j] } }

StoredKeys == { htData[i].key : i \in 1..Len(htData) }
NonEmptyBuckets == { b \in 1..Len(table) : table[b] # <<>> }

\* C16: after build and any further inserts collisionCount is the number of
\* distinct keys stored minus the number of non-empty buckets, so build gives
\* the same count for every permutation of the dataset.
C16_CountIsKeysMinusBuckets ==
    /\ collision_count = Cardinality(StoredKeys) - Cardinality(NonEmptyBuckets)
    /\ op.name = "ht_build" =>
          \A data \in Permutations(op.arg) :
              HashTable_build(Table, data).collision_count = collision_count

\* C16 witness: an insert after a build of two records has left three keys in
\* two buckets, with duplicates absent: the count is 1.
C16_Witness ==
    /\ op.name = "ht_insert"
    /\ expected = 2
    /\ Cardinality(StoredKeys) = 3
    /\ Cardinality(NonEmptyBuckets) = 2
    /\ collision_count = 1

\* C17: RedBlackTree.search(k) returns only inserted records whose key is k,
\* returns no stored record twice, and returns something exactly when some
\* inserted record has key k.
C17_RBTSearchSoundAndNonEmpty ==
    op.name = "rbt_search" =>
        /\ \A i \in 1..Len(results) :
              /\ results[i] \in Range(rbtData)
              /\ results[i].key = op.arg
        /\ \A i, j \in 1..Len(results) : i # j => results[i] # results[j]
        /\ results # <<>> <=> \E i \in 1..Len(rbtData) : rbtData[i].key = op.arg

\* C17 witness: a search has returned some, but not all, of the records with
\* the key, the key not being that of the root.
C17_Witness ==
    /\ op.name = "rbt_search"
    /\ results # <<>>
    /\ Len(results) < Len(linearSearch(rbtData, op.arg))
    /\ nodes[root].data.key # op.arg

\* C18: the capacity is at least 2 and equals the number of chains, insert and
\* search never change it, every index is within range (so neither the
\* capacity-0 branch nor the out-of-range branch of insert is taken), and
\* every insert appends exactly one record to bucket hash(key) mod capacity.
C18_CapacityAndIndexInRange ==
    [][ /\ table_size >= 2
        /\ Len(table) = table_size
        /\ \A k \in Keys : hashFunction(Table, k) < table_size
        /\ table_size' >= 2
        /\ Len(table') = table_size'
        /\ op'.name \in {"ht_insert", "ht_search"} => table_size' = table_size
        /\ op'.name = "ht_search" => table' = table
        /\ op'.name = "ht_insert" =>
              LET b == (hashOf[op'.arg.key] % table_size) + 1 IN
              /\ table' = [table EXCEPT ![b] = Append(table[b], op'.arg)]
              /\ Len(table'[b]) = Len(table[b]) + 1
      ]_vars

\* C18 witness: an insert of a key whose hash is not below the capacity has
\* put the record into the bucket the modulo gives.
C18_Witness ==
    /\ op.name = "ht_insert"
    /\ hashOf[op.arg.key] >= table_size
    /\ LET chain == table[(hashOf[op.arg.key] % table_size) + 1] IN
          chain # <<>> /\ chain[Len(chain)] = op.arg


(***************************************************************************)
(* The rotation calls and the termination of insert, statement by          *)
(* statement.                                                              *)
(***************************************************************************)

\* C13: every leftRotate(x) of insertFixup is called with x->right present and
\* every rightRotate(y) with y->left present, and the grandparent read after
\* the triangle-case rotation is present.
C13_RotationPreconditions ==
    /\ frame.pc = "rotateInner" =>
          IF frame.side = "L" THEN nodes[frame.z].right # nullptr
          ELSE nodes[frame.z].left # nullptr
    /\ frame.pc = "recolourLine" =>
          frame.parent # nullptr /\ frame.grandparent # nullptr
    /\ frame.pc = "rotateOuter" =>
          IF frame.side = "L" THEN nodes[frame.grandparent].left # nullptr
          ELSE nodes[frame.grandparent].right # nullptr

\* C13 witness: a triangle-case rotation is about to be made about a node that
\* is not a leaf's parent only: it has both children, so the fix-up has
\* climbed before.
C13_Witness ==
    /\ frame.pc = "rotateInner"
    /\ nodes[frame.z].left # nullptr
    /\ nodes[frame.z].right # nullptr

\* C15: every insert terminates: a running insert always returns; each step of
\* the descent moves x to a child of x; each iteration of the fix-up loop
\* either moves z to its grandparent (uncle RED) or ends, after at most two
\* rotations, with z's parent BLACK, so the loop ends.
C15_InsertTerminates ==
    /\ (frame.pc # "idle") ~> (frame.pc = "idle")
    /\ [][ /\ (frame.pc = "descend" /\ frame'.pc = "descend") =>
                /\ frame'.y = frame.x
                /\ frame'.x \in {nodes[frame.x].left, nodes[frame.x].right}
           /\ (frame.pc = "fixup" /\ frame'.pc = "fixup") =>
                frame'.z = nodes[nodes[frame.z].parent].parent
           /\ (frame.pc \in {"recolourLine", "rotateOuter"} /\ frame'.pc = "fixup") =>
                LET p == nodes'[frame'.z].parent IN
                /\ p # nullptr
                /\ nodes'[p].color = BLACK
           /\ frame.pc = "rotateInner" => frame'.pc = "recolourLine"
           /\ frame.pc = "rotateOuter" => frame'.pc = "fixup"
       ]_vars

\* C15 witness: the fix-up loop has moved z up from the new node and has to
\* run another iteration.
C15_Witness ==
    /\ frame.pc = "fixup"
    /\ frame.z # Len(nodes)
    /\ LoopGoesOn

====
